---- MODULE Spec2Model ----
(***************************************************************************)
(* Model of one execution of the packaging manifest python/setup.py.       *)
(*                                                                         *)
(* The manifest is a single statement: after the import, the keyword       *)
(* arguments of setup(...) are evaluated left to right, and then setup()   *)
(* is called with them.  Two arguments are computed from the working       *)
(* directory: long_description (open("README.md").read()) and packages     *)
(* (find_packages(where="python")).  The working directory is therefore    *)
(* part of the state; it is chosen in Init and never written.              *)
(*                                                                         *)
(* Representation of strings.  TLC strings are atomic, so a string the     *)
(* build tools take apart is written as the sequence of its tokens:        *)
(*   "api-doc-gen-python=api_doc_gen_python.cli:main"                      *)
(*     is <<"api-doc-gen-python","=","api_doc_gen_python",".","cli",":",   *)
(*          "main">>,                                                      *)
(*   "pytest-cov>=4.1.0" is <<"pytest-cov",">=","4.1.0">>,                 *)
(*   "Programming Language :: Python :: 3.10" is                           *)
(*     <<"Programming Language","::","Python","::","3",".","10">>,         *)
(*   ">=3.9" is <<">=","3",".","9">>,                                      *)
(* a path is the sequence of its components, a dotted package name the     *)
(* sequence of its parts, and the content of README.md a sequence over a   *)
(* small byte alphabet.  Setuptools is taken to be importable: the         *)
(* manifest is run by a setuptools build.                                  *)
(***************************************************************************)
EXTENDS Integers, Sequences, FiniteSets, TLC

VARIABLES pc, argi, readme, fs, handle, kwargs, calls, err

vars == <<pc, argi, readme, fs, handle, kwargs, calls, err>>

(* ------------------------------ bounds --------------------------------- *)

\* longest README.md content explored, in bytes
MaxLen == 2

\* cap on the number of setup() invocations recorded in one run
MaxCalls == 2

(* ------------------------- generic helpers ----------------------------- *)

Range(s) == {s[i] : i \in 1..Len(s)}

IsPrefix(p, s) == Len(p) <= Len(s) /\ SubSeq(s, 1, Len(p)) = p

Drop(s, n) == SubSeq(s, n + 1, Len(s))

\* index of the first occurrence of token t in s, 0 when there is none
IndexOf(s, t) ==
    IF \E i \in 1..Len(s) : s[i] = t
    THEN CHOOSE i \in 1..Len(s) : s[i] = t /\ \A j \in 1..(i - 1) : s[j] # t
    ELSE 0

\* str.split(sep): the token sequences between the separators
RECURSIVE Split(_, _)
Split(s, sep) ==
    IF IndexOf(s, sep) = 0 THEN <<s>>
    ELSE <<SubSeq(s, 1, IndexOf(s, sep) - 1)>> \o Split(Drop(s, IndexOf(s, sep)), sep)

\* the single token of each piece of a split (pieces here are one token long)
RECURSIVE Heads(_)
Heads(ss) == IF ss = <<>> THEN <<>> ELSE <<Head(ss)[1]>> \o Heads(Tail(ss))

\* decimal value of a numeric token
DigitTokens ==
    [t \in {"0", "1", "2", "3", "4", "5", "6", "7", "8", "9", "10", "11", "12", "13"} |->
        CASE t = "0" -> 0 [] t = "1" -> 1 [] t = "2" -> 2 [] t = "3" -> 3
          [] t = "4" -> 4 [] t = "5" -> 5 [] t = "6" -> 6 [] t = "7" -> 7
          [] t = "8" -> 8 [] t = "9" -> 9 [] t = "10" -> 10 [] t = "11" -> 11
          [] t = "12" -> 12 [] t = "13" -> 13]

IsNumber(t) == t \in DOMAIN DigitTokens

ToInt(t) == DigitTokens[t]

(* ---------------- the literal arguments of setup(...) ------------------ *)

\* the import name of the package written where the project name belongs
NameUnderscore == "api_doc_gen_python"


Name == "api-doc-gen-python"

Version == <<"1", ".", "0", ".", "0">>

Description == "Python parser module for API Documentation Generator"

ContentType == "text/markdown"

Author == "API Documentation Generator Team"


PythonRequires == <<">=", "3", ".", "9">>

\* discovery from the working directory instead of python/
FindWhereCwd == <<>>


FindWhere == <<"python">>

\* the dict {"": "python"}: the root package namespace is the key ""
PackageDir == ("" :> <<"python">>)

\* the test runner listed among the runtime dependencies
InstallRequiresWithPytest ==
    << <<"docstring-parser", ">=", "0.15">>,
       <<"pydoc-markdown", ">=", "4.8.0">>,
       <<"typing-extensions", ">=", "4.7.0">>,
       <<"pydantic", ">=", "2.4.0">>,
       <<"pytest", ">=", "7.4.0">> >>


InstallRequires ==
    << <<"docstring-parser", ">=", "0.15">>,
       <<"pydoc-markdown", ">=", "4.8.0">>,
       <<"typing-extensions", ">=", "4.7.0">>,
       <<"pydantic", ">=", "2.4.0">>,
       <<"click", ">=", "8.1.0">> >>

ExtrasRequire ==
    [dev |-> << <<"pytest", ">=", "7.4.0">>,
                <<"pytest-cov", ">=", "4.1.0">>,
                <<"black", ">=", "23.7.0">>,
                <<"flake8", ">=", "6.0.0">>,
                <<"mypy", ">=", "1.5.0">>,
                <<"isort", ">=", "5.12.0">>,
                <<"pre-commit", ">=", "3.4.0">> >>]

\* a second entry-point group next to console_scripts
EntryPointsWithGui ==
    [console_scripts |->
        << <<"api-doc-gen-python", "=", "api_doc_gen_python", ".", "cli", ":", "main">> >>,
     gui_scripts |->
        << <<"api-doc-gen-python-gui", "=", "api_doc_gen_python", ".", "cli", ":", "main">> >>]


EntryPoints ==
    [console_scripts |->
        << <<"api-doc-gen-python", "=", "api_doc_gen_python", ".", "cli", ":", "main">> >>]

Classifiers ==
    << <<"Development Status", "::", "4 - Beta">>,
       <<"Intended Audience", "::", "Developers">>,
       <<"License", "::", "OSI Approved", "::", "MIT License">>,
       <<"Operating System", "::", "OS Independent">>,
       <<"Programming Language", "::", "Python", "::", "3">>,
       <<"Programming Language", "::", "Python", "::", "3", ".", "9">>,
       <<"Programming Language", "::", "Python", "::", "3", ".", "10">>,
       <<"Programming Language", "::", "Python", "::", "3", ".", "11">>,
       <<"Programming Language", "::", "Python", "::", "3", ".", "12">>,
       <<"Topic", "::", "Software Development", "::", "Documentation">> >>

\* the keyword arguments in the order the call evaluates them
ArgNames ==
    <<"name", "version", "description", "long_description",
      "long_description_content_type", "author", "python_requires",
      "packages", "package_dir", "install_requires", "extras_require",
      "entry_points", "classifiers">>

\* the arguments that are not plain literals
Computed == {"long_description", "packages"}

Literal(a) ==
    CASE a = "name" -> Name
      [] a = "version" -> Version
      [] a = "description" -> Description
      [] a = "long_description_content_type" -> ContentType
      [] a = "author" -> Author
      [] a = "python_requires" -> PythonRequires
      [] a = "package_dir" -> PackageDir
      [] a = "install_requires" -> InstallRequires
      [] a = "extras_require" -> ExtrasRequire
      [] a = "entry_points" -> EntryPoints
      [] a = "classifiers" -> Classifiers

(* ----------------------- the working directory ------------------------- *)

\* byte alphabet of README.md: a letter, carriage return, line feed, and a
\* byte that is not valid in the default text encoding
Bytes == {"a", "CR", "LF", "BAD"}

RECURSIVE SeqsUpTo(_, _)
SeqsUpTo(S, n) ==
    IF n = 0 THEN {<<>>}
    ELSE SeqsUpTo(S, n - 1) \cup
         {Append(s, x) : s \in {t \in SeqsUpTo(S, n - 1) : Len(t) = n - 1}, x \in S}

\* what the path README.md is in the working directory
ReadmeStates ==
    [kind : {"missing", "dir", "noperm"}, bytes : {<<>>}]
        \cup [kind : {"file"}, bytes : SeqsUpTo(Bytes, MaxLen)]

PyDir == <<"python">>

PkgDir == <<"python", "api_doc_gen_python">>

SubPkgDir == <<"python", "api_doc_gen_python", "parsers">>

FlatPkgDir == <<"api_doc_gen_python">>

Parent(p) == SubSeq(p, 1, Len(p) - 1)

\* the directory trees explored: dirs are the directories, inits the
\* directories holding an __init__.py, mods the .py module files
FsStates ==
    {f \in [dirs : SUBSET {PyDir, PkgDir, SubPkgDir, FlatPkgDir},
            inits : SUBSET {PkgDir, SubPkgDir, FlatPkgDir},
            mods : SUBSET {PkgDir \o <<"cli">>, FlatPkgDir \o <<"cli">>}] :
        /\ \A d \in f.dirs : Len(d) > 1 => Parent(d) \in f.dirs
        /\ f.inits \subseteq f.dirs
        /\ \A m \in f.mods : Parent(m) \in f.dirs}

(* --------------------- open("README.md").read() ------------------------ *)

\* the exception open() raises for the path, "none" when it opens
OpenError(r) ==
    CASE r.kind = "missing" -> "FileNotFoundError"
      [] r.kind = "dir" -> "IsADirectoryError"
      [] r.kind = "noperm" -> "PermissionError"
      [] OTHER -> "none"

\* the exception the strict text decoder raises for the bytes
DecodeError(bs) == IF "BAD" \in Range(bs) THEN "UnicodeDecodeError" ELSE "none"

\* universal newlines of text mode: "\r\n" and a lone "\r" are read as "\n"
RECURSIVE TranslateNewlines(_)
TranslateNewlines(bs) ==
    IF bs = <<>> THEN <<>>
    ELSE IF bs[1] = "CR"
         THEN IF Len(bs) > 1 /\ bs[2] = "LF"
              THEN <<"LF">> \o TranslateNewlines(Drop(bs, 2))
              ELSE <<"LF">> \o TranslateNewlines(Drop(bs, 1))
         ELSE <<bs[1]>> \o TranslateNewlines(Drop(bs, 1))

\* readline(): the text up to and including the first line end
FileReadLine(h) ==
    LET text == TranslateNewlines(Drop(h.data, h.pos))
    IN  IF IndexOf(text, "LF") = 0 THEN text ELSE SubSeq(text, 1, IndexOf(text, "LF"))

\* read() without a size: the text from the position to the end of file
FileRead(h) == TranslateNewlines(Drop(h.data, h.pos))

(* ------------------- find_packages and package_dir --------------------- *)

\* find_packages as a walk that stops at a directory that does not exist
FindPackagesStrictError(where, f) ==
    IF where \in f.dirs THEN "none" ELSE "FileNotFoundError"

\* the exception find_packages raises: none, the walk of a directory that
\* does not exist is empty
FindPackagesError(where, f) == "none"

\* the packages found below where: every directory all of whose ancestors
\* below where, and itself, hold an __init__.py, named by its relative path
FindPackages(where, f) ==
    {Drop(d, Len(where)) :
        d \in {e \in f.dirs :
                /\ IsPrefix(where, e)
                /\ Len(e) > Len(where)
                /\ \A k \in (Len(where) + 1)..Len(e) : SubSeq(e, 1, k) \in f.inits}}

\* the directory the build takes a package from (build_py.get_package_dir)
ResolvePackage(pd, pkg) == IF "" \in DOMAIN pd THEN pd[""] \o pkg ELSE pkg

(* ------------------- how the build reads the metadata ------------------ *)

\* "name=module:attr"
ParseEntryPoint(e) ==
    LET i == IndexOf(e, "=")
        target == Drop(e, i)
        j == IndexOf(target, ":")
    IN  [name |-> SubSeq(e, 1, i - 1),
         module |-> Heads(Split(SubSeq(target, 1, j - 1), ".")),
         attr |-> Drop(target, j)]

\* the operators of a version specifier
SpecOps == {">=", "<=", "==", "!=", "~=", ">", "<"}

\* the project name of a requirement: what stands before the specifier
ReqName(r) ==
    LET i == CHOOSE k \in 1..(Len(r) + 1) :
                 /\ k = Len(r) + 1 \/ r[k] \in SpecOps
                 /\ \A m \in 1..(k - 1) : r[m] \notin SpecOps
    IN  SubSeq(r, 1, i - 1)

ReqNames(rs) == {ReqName(rs[i]) : i \in 1..Len(rs)}

\* "3.10" as the release tuple <<3, 10>>
ParseVersion(toks) ==
    LET parts == Heads(Split(toks, ".")) IN [i \in 1..Len(parts) |-> ToInt(parts[i])]

Component(v, i) == IF i <= Len(v) THEN v[i] ELSE 0

\* comparison of two versions read as decimal fractions: 3.10 is 3.1
DecimalLeq(a, b) ==
    LET frac(v) == IF Component(v, 2) >= 10 THEN Component(v, 2) ELSE 10 * Component(v, 2)
    IN  \/ Component(a, 1) < Component(b, 1)
        \/ Component(a, 1) = Component(b, 1) /\ frac(a) <= frac(b)

\* release tuples compare component by component, padded with zeros
VersionLeq(a, b) ==
    LET n == IF Len(a) > Len(b) THEN Len(a) ELSE Len(b)
    IN  \/ \A i \in 1..n : Component(a, i) = Component(b, i)
        \/ \E i \in 1..n :
              /\ Component(a, i) < Component(b, i)
              /\ \A j \in 1..(i - 1) : Component(a, j) = Component(b, j)

ParseSpecifier(s) == [op |-> s[1], ver |-> ParseVersion(Drop(s, 1))]

\* does version v satisfy the specifier (only >= occurs in the manifest)
Satisfies(v, s) ==
    LET sp == ParseSpecifier(s) IN sp.op = ">=" /\ VersionLeq(sp.ver, v)

\* the release tuples of the "Programming Language :: Python :: X.Y" classifiers
PythonVersions(cs) ==
    {ParseVersion(Split(cs[i], "::")[3]) :
        i \in {k \in 1..Len(cs) :
                 /\ Len(Split(cs[k], "::")) = 3
                 /\ Split(cs[k], "::")[1] = <<"Programming Language">>
                 /\ Split(cs[k], "::")[2] = <<"Python">>
                 /\ \A t \in Range(Split(cs[k], "::")[3]) : IsNumber(t) \/ t = "."}}

MinorVersions(cs) == {v \in PythonVersions(cs) : Len(v) = 2}

(* ------------------------------ the run -------------------------------- *)

Init ==
    /\ pc = "import"
    /\ argi = 1
    /\ readme \in ReadmeStates
    /\ fs \in FsStates
    /\ handle = <<>>
    /\ kwargs = <<>>
    /\ calls = <<>>
    /\ err = "none"

\* where control goes once argument i is evaluated
AfterArg(i) == IF i = Len(ArgNames) THEN "call" ELSE "args"

\* bind argument number argi to value v and move on
Bind(v) ==
    /\ kwargs' = Append(kwargs, [arg |-> ArgNames[argi], val |-> v])
    /\ argi' = argi + 1
    /\ pc' = AfterArg(argi)

Raise(e) ==
    /\ pc' = "error"
    /\ err' = e
    /\ UNCHANGED <<argi, kwargs>>

\* from setuptools import setup, find_packages
Import ==
    /\ pc = "import"
    /\ pc' = "args"
    /\ UNCHANGED <<argi, readme, fs, handle, kwargs, calls, err>>

\* a literal keyword argument
EvalLiteral ==
    /\ pc = "args"
    /\ ArgNames[argi] \notin Computed
    /\ Bind(Literal(ArgNames[argi]))
    /\ UNCHANGED <<readme, fs, handle, calls, err>>

\* open("README.md")
OpenReadme ==
    /\ pc = "args"
    /\ ArgNames[argi] = "long_description"
    /\ IF OpenError(readme) = "none"
       THEN /\ handle' = <<[data |-> readme.bytes, pos |-> 0]>>
            /\ pc' = "read"
            /\ UNCHANGED <<argi, kwargs, err>>
       ELSE /\ Raise(OpenError(readme))
            /\ UNCHANGED handle
    /\ UNCHANGED <<readme, fs, calls>>

\* .read() on the file just opened
ReadReadme ==
    /\ pc = "read"
    /\ IF DecodeError(Drop(handle[1].data, handle[1].pos)) = "none"
       THEN /\ Bind(FileRead(handle[1]))
            /\ handle' = <<[handle[1] EXCEPT !.pos = Len(handle[1].data)]>>
            /\ UNCHANGED err
       ELSE /\ Raise(DecodeError(Drop(handle[1].data, handle[1].pos)))
            /\ UNCHANGED handle
    /\ UNCHANGED <<readme, fs, calls>>

\* find_packages(where="python")
EvalFindPackages ==
    /\ pc = "args"
    /\ ArgNames[argi] = "packages"
    /\ IF FindPackagesError(FindWhere, fs) = "none"
       THEN Bind(FindPackages(FindWhere, fs)) /\ UNCHANGED err
       ELSE Raise(FindPackagesError(FindWhere, fs))
    /\ UNCHANGED <<readme, fs, handle, calls>>

\* the keyword arguments as the mapping setup() receives
AsMapping(kw) ==
    [a \in {kw[i].arg : i \in 1..Len(kw)} |->
        kw[CHOOSE i \in 1..Len(kw) : kw[i].arg = a].val]

\* setup(...) is entered with the evaluated arguments
CallSetup ==
    /\ pc = "call"
    /\ Len(calls) < MaxCalls
    /\ calls' = Append(calls, AsMapping(kwargs))
    /\ pc' = "insetup"
    /\ UNCHANGED <<argi, readme, fs, handle, kwargs, err>>

\* control going back to the call instead of the end of the file
ReturnToCall == "call"

\* where control goes when setup() returns: the end of the file
ReturnTo == "done"

SetupReturn ==
    /\ pc = "insetup"
    /\ pc' = ReturnTo
    /\ UNCHANGED <<argi, readme, fs, handle, kwargs, calls, err>>

Next ==
    \/ Import
    \/ EvalLiteral
    \/ OpenReadme
    \/ ReadReadme
    \/ EvalFindPackages
    \/ CallSetup
    \/ SetupReturn

Spec == Init /\ [][Next]_vars

\* the interpreter runs the file to its end: a step that can be taken is taken
FairSpec == Spec /\ WF_vars(Next)

Terminated == pc \in {"done", "error"}

(* ------------------------------ claims --------------------------------- *)

Called == Len(calls) >= 1

\* the keyword arguments setup() received
Meta == calls[1]

\* README.md is a file that opens and whose bytes decode
Readable == readme.kind = "file" /\ "BAD" \notin Range(readme.bytes)

\* the one console script, taken apart
Script == ParseEntryPoint(Meta.entry_points.console_scripts[1])

\* C1 as stated: with README.md missing the run ends in an error and setup()
\* is never entered; whenever README.md exists the finished run has entered
\* setup() with long_description equal to the bytes of the file.
C1_AsStated ==
    /\ readme.kind = "missing" =>
          /\ calls = <<>>
          /\ Terminated => pc = "error"
    /\ readme.kind # "missing" /\ Terminated =>
          /\ pc = "done"
          /\ Len(calls) = 1
          /\ calls[1].long_description = readme.bytes

\* C1 amended: with README.md missing the run ends in FileNotFoundError
\* raised at long_description and setup() is never entered; when README.md
\* is a file that opens and decodes, the finished run has entered setup()
\* once, with long_description equal to the whole content of the file read
\* as text, every "\r\n" and lone "\r" turned into "\n".
C1_ReadmeDecidesTheRun ==
    /\ readme.kind = "missing" =>
          /\ calls = <<>>
          /\ pc \notin {"call", "insetup", "done"}
          /\ Terminated => err = "FileNotFoundError" /\ ArgNames[argi] = "long_description"
    /\ Readable /\ Terminated => pc = "done" /\ Len(calls) = 1
    /\ Readable /\ Called => Meta.long_description = TranslateNewlines(readme.bytes)

C1_Witness ==
    /\ Readable
    /\ readme.bytes = <<"CR", "LF">>
    /\ pc = "done"
    /\ Meta.long_description = <<"LF">>

\* C2: setup() receives exactly one entry-point group, console_scripts, with
\* exactly one entry, naming the command api-doc-gen-python and the
\* function main of the module api_doc_gen_python.cli.
C2_OneConsoleScript ==
    Called =>
        /\ DOMAIN Meta.entry_points = {"console_scripts"}
        /\ Len(Meta.entry_points.console_scripts) = 1
        /\ Script = [name |-> <<"api-doc-gen-python">>,
                     module |-> <<"api_doc_gen_python", "cli">>,
                     attr |-> <<"main">>]

C2_Witness == pc = "insetup" /\ Script.attr = <<"main">>

\* C3: when setup() is entered, the package of the console script's module
\* is among the packages find_packages returned, and the module file is in
\* the directory that package resolves to.
C3_EntryPointTargetExists ==
    Called =>
        /\ Parent(Script.module) \in Meta.packages
        /\ ResolvePackage(Meta.package_dir, Script.module) \in fs.mods

\* C4: python_requires is >=3.9, the classifiers that name a minor release
\* of Python name exactly 3.9, 3.10, 3.11 and 3.12, and each of these
\* releases satisfies python_requires.
C4_VersionsAgree ==
    Called =>
        /\ ParseSpecifier(Meta.python_requires) = [op |-> ">=", ver |-> <<3, 9>>]
        /\ MinorVersions(Meta.classifiers) = {<<3, 9>>, <<3, 10>>, <<3, 11>>, <<3, 12>>}
        /\ \A v \in MinorVersions(Meta.classifiers) : Satisfies(v, Meta.python_requires)

C4_Witness ==
    /\ pc = "insetup"
    /\ <<3, 10>> \in MinorVersions(Meta.classifiers)
    /\ Satisfies(<<3, 10>>, Meta.python_requires)

\* C5: install_requires names exactly the five runtime libraries, the only
\* extra is dev and it names exactly the seven development tools, and no
\* project is named by both.
C5_DependencySets ==
    Called =>
        /\ Len(Meta.install_requires) = 5
        /\ ReqNames(Meta.install_requires) =
              {<<"docstring-parser">>, <<"pydoc-markdown">>, <<"typing-extensions">>,
               <<"pydantic">>, <<"click">>}
        /\ DOMAIN Meta.extras_require = {"dev"}
        /\ Len(Meta.extras_require.dev) = 7
        /\ ReqNames(Meta.extras_require.dev) =
              {<<"pytest">>, <<"pytest-cov">>, <<"black">>, <<"flake8">>, <<"mypy">>,
               <<"isort">>, <<"pre-commit">>}
        /\ ReqNames(Meta.install_requires) \cap ReqNames(Meta.extras_require.dev) = {}

C5_Witness ==
    /\ pc = "insetup"
    /\ <<"click">> \in ReqNames(Meta.install_requires)
    /\ <<"pytest-cov">> \in ReqNames(Meta.extras_require.dev)

\* the steps that can be taken in the current state
EnabledSteps ==
    {i \in 1..7 :
        CASE i = 1 -> ENABLED Import
          [] i = 2 -> ENABLED EvalLiteral
          [] i = 3 -> ENABLED OpenReadme
          [] i = 4 -> ENABLED ReadReadme
          [] i = 5 -> ENABLED EvalFindPackages
          [] i = 6 -> ENABLED CallSetup
          [] i = 7 -> ENABLED SetupReturn}

\* C6: in every run setup() is entered at most once, at most one step can be
\* taken at any moment, the run comes to its end, and it ends either in an
\* error raised while long_description is evaluated, with setup() never
\* entered, or after the one call of setup() has returned.
C6_OneStraightLineRun ==
    /\ [](Len(calls) <= 1)
    /\ [](Cardinality(EnabledSteps) <= 1)
    /\ [](Terminated =>
            \/ pc = "error" /\ ArgNames[argi] = "long_description" /\ calls = <<>>
            \/ pc = "done" /\ Len(calls) = 1)
    /\ <>Terminated

C6_Witness == pc = "done" /\ Len(calls) = 1 /\ EnabledSteps = {}

\* C7: setup() receives the name api-doc-gen-python and the version 1.0.0,
\* and the command name of the console script is that same name.
C7_NameAndVersion ==
    Called =>
        /\ Meta.name = "api-doc-gen-python"
        /\ ParseVersion(Meta.version) = <<1, 0, 0>>
        /\ Script.name = <<Meta.name>>

C7_Witness == pc = "insetup" /\ Script.name = <<"api-doc-gen-python">>

\* C8: the directory find_packages searched is the directory package_dir
\* gives for the root namespace, and every package passed to setup()
\* resolves to a directory below it that exists and holds an __init__.py.
C8_PackagesUnderDeclaredRoot ==
    Called =>
        /\ Meta.package_dir[""] = FindWhere
        /\ \A p \in Meta.packages :
              /\ IsPrefix(Meta.package_dir[""], ResolvePackage(Meta.package_dir, p))
              /\ ResolvePackage(Meta.package_dir, p) \in fs.dirs
              /\ ResolvePackage(Meta.package_dir, p) \in fs.inits

C8_Witness ==
    /\ pc = "insetup"
    /\ <<"api_doc_gen_python", "parsers">> \in Meta.packages
    /\ FlatPkgDir \in fs.inits

====
